---- MODULE Spec2Model ----
(***************************************************************************)
(* Attendance ledger of appdotbuilder/attendance-manager.                   *)
(*                                                                         *)
(* The handlers of src/server/src/handlers/attendance.ts are modelled as   *)
(* calls that run against the attendance_records table.  Every handler is  *)
(* an async function: between two awaited storage round trips other calls  *)
(* may run and the clock may advance, so a call is a small process whose   *)
(* steps are its storage statements and its clock reads.                   *)
(*                                                                         *)
(*   Spec     any number (up to MaxCalls) of calls in flight               *)
(*   SeqSpec  the same steps, but a call starts only when no other call    *)
(*            is in flight (non-overlapping calls)                         *)
(*                                                                         *)
(* The leave-request handlers (createLeaveRequest, updateLeaveRequestStatus,*)
(* deleteLeaveRequest and the three list queries) run against the          *)
(* leave_requests table in the same way:                                   *)
(*                                                                         *)
(*   LeaveSpec  leave-request calls of all users, none overlapping another *)
(*   MixedSpec  attendance and leave-request calls of all users, none      *)
(*              overlapping another                                        *)
(*                                                                         *)
(* Further specifications: AuthSpec (logins and attendance calls of every *)
(* user, the inactive one too), OneSeqSpec (SeqSpec with one user) and     *)
(* PanelSpec (the admin's panel of src/unnamed/part_000 on top of the      *)
(* leave-request handlers).                                                *)
(*                                                                         *)
(* Time is in milliseconds, as Date.getTime() is.  The columns created_at  *)
(* and updated_at of attendance_records are written but never read by the  *)
(* handlers and are left out of the rows; so are updated_at, type and      *)
(* reason of leave_requests (type and reason are stored as sent and no     *)
(* handler reads them).  The field wasDecided of a leave request is        *)
(* history and no column of the table.                                     *)
(***************************************************************************)
EXTENDS Integers, Sequences, FiniteSets, TLC

(***************************************************************************)
(* Bounds of the model.                                                    *)
(***************************************************************************)
\* calls that can be in flight at once
MaxCalls == 2
\* how often the clock advances by StepMs
MaxFineSteps == 1
\* how often the clock advances by a whole day
MaxDaySteps == 1
\* calls made in all
MaxBegun == 4
\* calls made in all when attendance and leave-request calls mix
MaxMixedBegun == 3

(***************************************************************************)
(* Program constants.                                                      *)
(***************************************************************************)
\* (1000 * 60 * 60): milliseconds of one hour
MsPerHour == 1000 * 60 * 60
MsPerDay == 24 * MsPerHour
\* numeric(5, 2): total_hours keeps two decimals, i.e. hundredths of an hour
NumericScale == 100
\* SQL NULL / JS null of a nullable timestamp or number
Null == -1
\* JS null / undefined of the optional notes
NullNotes == "<null>"
\* the rows of usersTable; no implemented handler inserts or deletes users
Users == {1, 2, 3}
\* an id that is no row of usersTable
UnknownUser == 99999
\* the callers of the non-overlapping calls: the two active users, and the
\* unknown id
UserIds == {1, 2, UnknownUser}
\* every user, and the unknown id
AllUserIds == Users \cup {UnknownUser}
\* the callers of the overlapping calls: one user, and the unknown id
OneUserIds == {1, UnknownUser}
\* start_date / end_date a caller may send with getUserAttendance: absent,
\* or the instant the model's clock starts at
RangeInputs == {Null, MsPerDay}
\* the same, and an instant within that day (z.coerce.date(): any instant)
SeqRangeInputs == RangeInputs \cup {MsPerDay + MsPerHour}
\* notes a caller may send with clockIn and with clockOut
ClockInNotes == {NullNotes, "in"}
ClockOutNotes == {NullNotes, "", "out"}
\* the server's offset from UTC (process time zone): UTC or UTC+1
TzOffsets == {0, MsPerHour}
\* clock advance between two steps: half of 0.01 h
StepMs == MsPerHour \div (2 * NumericScale)

Calls == 1..MaxCalls

VARIABLES
    now,        \* the clock, ms since the epoch (new Date())
    tzOffset,   \* local time = UTC + tzOffset
    fineSteps,  \* clock advances by StepMs so far
    daySteps,   \* clock advances by MsPerDay so far
    records,    \* attendance_records: sequence of rows, id = position
    calls,      \* the calls in flight, per slot
    begun,      \* calls made so far
    last,       \* the outcome of the call that returned last
    leaveRequests,  \* leave_requests: the rows, by id
    nextLeaveId,    \* the next value of the serial id of leave_requests
    leaveCalls,     \* the leave-request calls in flight, per slot
    leaveLast,      \* the outcome of the leave-request call that returned last
    loginLast,      \* the outcome of the login call that returned last
    panel           \* the state of the AdminPanel component of the admin

\* the state of the attendance handlers
attendanceVars == <<records, calls, last>>

\* the state of the leave-request handlers
leaveVars == <<leaveRequests, nextLeaveId, leaveCalls, leaveLast>>

\* the state of the client: the session and the admin's panel
clientVars == <<loginLast, panel>>

vars == <<now, tzOffset, fineSteps, daySteps, records, calls, begun, last,
          leaveRequests, nextLeaveId, leaveCalls, leaveLast, loginLast, panel>>

(***************************************************************************)
(* Dates.                                                                  *)
(***************************************************************************)
\* new Date(today.getFullYear(), today.getMonth(), today.getDate()):
\* the instant of local midnight of the local day of t
StartOfDay(t) == ((t + tzOffset) \div MsPerDay) * MsPerDay - tzOffset

\* d.toISOString().split('T')[0]: the UTC calendar day of instant t,
\* as the number of the day
ToISODate(t) == t \div MsPerDay

\* new Date(record.date): the instant of UTC midnight of day d
DateFromString(d) == d * MsPerDay

\* the value the handlers store in (and compare with) the date column
TodayKey(t) == ToISODate(StartOfDay(t))

(***************************************************************************)
(* Rows and returned values.                                               *)
(***************************************************************************)
\* JS truthiness of the string the driver returns for a numeric column:
\* null is falsy, every numeric text ("0.00" too) is a non-empty string
NumericTruthy(th) == th # Null

ParseTotalHoursZeroFalsy(th) == IF th # Null /\ th # 0 THEN th ELSE Null

\* record.total_hours ? parseFloat(record.total_hours) : null
\* (total_hours in hundredths of an hour)
ParseTotalHours(th) == IF NumericTruthy(th) THEN th ELSE Null

\* { ...record, date: new Date(record.date), total_hours: ... }
ToAttendanceRecord(id, row) ==
    [id |-> id, user_id |-> row.user_id, date |-> DateFromString(row.date),
     clock_in |-> row.clock_in, clock_out |-> row.clock_out,
     total_hours |-> ParseTotalHours(row.total_hours), notes |-> row.notes]

NoRecord ==
    [id |-> 0, user_id |-> 0, date |-> Null, clock_in |-> Null,
     clock_out |-> Null, total_hours |-> Null, notes |-> NullNotes]

\* input.notes || fallback
NotesOr(n, fallback) == IF n = NullNotes \/ n = "" THEN fallback ELSE n

\* ids of the rows WHERE user_id = u AND date = d
RowsOf(u, d) ==
    {i \in 1..Len(records) : records[i].user_id = u /\ records[i].date = d}

(***************************************************************************)
(* Calls.                                                                  *)
(***************************************************************************)
IdleCall ==
    [op |-> "none", pc |-> "idle", user_id |-> 0, notes |-> NullNotes,
     date |-> Null, rid |-> 0, snapIn |-> Null, snapNotes |-> NullNotes,
     t |-> Null, total |-> Null, afterClockOut |-> FALSE]

InFlight(c) == calls[c].pc # "idle"

\* a new call takes the lowest free slot
FreeSlot(c) == ~InFlight(c) /\ \A d \in 1..(c - 1) : InFlight(d)

\* what the caller of op sees: the error thrown (err # "") or the value
\* returned: a record (ret), the status flags, or a list of records
Outcome(op, err, ret, hasIn, hasOut, list) ==
    [op |-> op, err |-> err, ret |-> ret, hasClockedIn |-> hasIn,
     hasClockedOut |-> hasOut, list |-> list]

\* no call has returned yet
NoOutcome == Outcome("none", "", NoRecord, FALSE, FALSE, <<>>)

\* a handler returns record ret (err = "") or throws err: its locals are
\* gone, and the caller sees the outcome
Return(c, err, ret) ==
    /\ calls' = [calls EXCEPT ![c] = IdleCall]
    /\ last' = Outcome(calls[c].op, err, ret, FALSE, FALSE, <<>>)

\* history, not program state: a clockOut of u is made after a clockOut
\* of u for the same day has succeeded
MadeAfterClockOut(op, u) ==
    /\ op = "clockOut"
    /\ \E r \in RowsOf(u, TodayKey(now)) : records[r].clock_out # Null

\* a handler starts: the user lookup (usersTable never changes), then
\* today = new Date() and startOfDay
Begin(c, op, u, n) ==
    /\ FreeSlot(c)
    /\ begun < MaxBegun
    /\ begun' = begun + 1
    /\ IF u \notin Users
         THEN /\ last' = Outcome(op, "User not found", NoRecord, FALSE, FALSE, <<>>)
              /\ UNCHANGED calls
         ELSE /\ calls' = [calls EXCEPT ![c] =
                   [IdleCall EXCEPT !.op = op, !.pc = "find", !.user_id = u,
                                    !.notes = n, !.date = TodayKey(now),
                                    !.afterClockOut = MadeAfterClockOut(op, u)]]
              /\ UNCHANGED last
    /\ UNCHANGED <<now, tzOffset, fineSteps, daySteps, records>>
    /\ UNCHANGED leaveVars
    /\ UNCHANGED clientVars

(***************************************************************************)
(* Leave requests: users' roles, rows, returned values and calls.          *)
(***************************************************************************)
\* usersTable.role of the rows of usersTable: an employee, an admin, and
\* an employee whose account is inactive
UserRole == [u \in Users |-> IF u = 2 THEN "admin" ELSE "employee"]

\* usersTable.is_active of the rows of usersTable
UserActive == [u \in Users |-> u # 3]

\* leaveRequestStatusSchema: the status a caller may send
LeaveStatuses == {"pending", "approved", "rejected"}

\* rejection_reason a caller may send: absent / null, empty, or a text
RejectionReasons == {NullNotes, "", "X"}

\* start_date / end_date a caller may send (z.coerce.date(): any instant):
\* an instant within a UTC day and the first instant of the next day
LeaveDateInputs == {MsPerDay + MsPerHour, 2 * MsPerDay}

\* an id that is no row of leaveRequestsTable
UnknownLeaveId == 999

\* request ids a caller may send: the first id of the serial, and the
\* unknown id
LeaveIdInputs == {1, UnknownLeaveId}

\* ids of the rows of leave_requests
LeaveIds == DOMAIN leaveRequests

NoLeaveRequest ==
    [id |-> 0, user_id |-> 0, start_date |-> Null, end_date |-> Null,
     status |-> "none", approved_by |-> Null, approved_at |-> Null,
     rejection_reason |-> NullNotes, created_at |-> Null]

\* { ...leaveRequest, start_date: new Date(..), end_date: new Date(..) }
ToLeaveRequest(id, row) ==
    [id |-> id, user_id |-> row.user_id,
     start_date |-> DateFromString(row.start_date),
     end_date |-> DateFromString(row.end_date),
     status |-> row.status, approved_by |-> row.approved_by,
     approved_at |-> row.approved_at,
     rejection_reason |-> row.rejection_reason, created_at |-> row.created_at]

\* history, not program state: the row has had status approved or
\* rejected at some time, once status is written to it
WasDecided(row, status) == row.wasDecided \/ status \in {"approved", "rejected"}

\* input.rejection_reason || null
ReasonOrNull(x) == IF x = NullNotes \/ x = "" THEN NullNotes ELSE x

IdleLeaveCall ==
    [op |-> "none", pc |-> "idle", id |-> 0, user_id |-> 0, status |-> "none",
     approved_by |-> 0, rejection_reason |-> NullNotes,
     start_date |-> Null, end_date |-> Null, t |-> Null]

LeaveInFlight(c) == leaveCalls[c].pc # "idle"

\* a new call takes the lowest free slot
FreeLeaveSlot(c) == ~LeaveInFlight(c) /\ \A d \in 1..(c - 1) : LeaveInFlight(d)

NoLeaveCallInFlight == \A c \in Calls : ~LeaveInFlight(c)

\* what the caller of op sees: the error thrown (err # "") or the value
\* returned: a leave request (ret), { success: true }, or a list
LeaveOutcome(op, err, ret, success, list) ==
    [op |-> op, err |-> err, ret |-> ret, success |-> success, list |-> list]

NoLeaveOutcome == LeaveOutcome("none", "", NoLeaveRequest, FALSE, <<>>)

\* a handler returns (err = "") or throws err
LeaveReturn(c, err, ret, success) ==
    /\ leaveCalls' = [leaveCalls EXCEPT ![c] = IdleLeaveCall]
    /\ leaveLast' = LeaveOutcome(leaveCalls[c].op, err, ret, success, <<>>)

\* a handler throws before its first storage statement on leave_requests
LeaveThrowAtOnce(op, err) ==
    /\ leaveLast' = LeaveOutcome(op, err, NoLeaveRequest, FALSE, <<>>)
    /\ UNCHANGED leaveCalls

(***************************************************************************)
(* The client: credentials, the session and the admin's panel.             *)
(***************************************************************************)
\* usersTable.email of the rows of usersTable (unique)
UserEmail ==
    [u \in Users |-> IF u = 1 THEN "test@example.com"
                     ELSE IF u = 2 THEN "admin@test.com"
                     ELSE "inactive@example.com"]

\* usersTable.password_hash of the rows of usersTable: the tests store
\* the plain text
PasswordHash == [u \in Users |-> "password123"]

\* email and password a caller may send with login
EmailInputs == {UserEmail[u] : u \in Users} \cup {"nonexistent@example.com"}
PasswordInputs == {"password123", "wrongpassword"}

\* comparePassword(plaintext, hash): plaintext === hash
ComparePassword(plaintext, hash) == plaintext = hash

NoToken == [userId |-> 0, email |-> "", role |-> "", exp |-> Null]

\* createToken(payload): the payload and exp = Date.now() + 24 h (the
\* base64 text of the JSON of these fields, which is one-to-one)
CreateToken(userId, email, role) ==
    [userId |-> userId, email |-> email, role |-> role, exp |-> now + MsPerDay]

\* what the caller of login sees: the error thrown (err # "") or
\* { user, token }; of the user returned, the id
LoginOutcome(err, user, token) == [err |-> err, user |-> user, token |-> token]

NoLoginOutcome == LoginOutcome("", 0, NoToken)

\* the AdminPanel is rendered for a user whose role is admin
CurrentUser == CHOOSE u \in Users : UserRole[u] = "admin"

\* the state of the AdminPanel before its first render: of the leave
\* requests the panel holds, the ids; dialog is the row whose Reject
\* dialog is open; sending is the selectedRequest.id the running
\* handleUpdateLeaveRequestStatus has captured
InitialPanel ==
    [mounted |-> FALSE, pendingLeaveRequests |-> <<>>,
     selectedRequest |-> Null, rejectionReason |-> "", isLoading |-> FALSE,
     message |-> "", dialog |-> Null, sending |-> Null]

Init ==
    /\ loginLast = NoLoginOutcome
    /\ panel = InitialPanel
    /\ leaveRequests = [i \in {} |-> NoLeaveRequest]
    /\ nextLeaveId = 1
    /\ leaveCalls = [c \in Calls |-> IdleLeaveCall]
    /\ leaveLast = NoLeaveOutcome
    /\ now = MsPerDay
    /\ tzOffset \in TzOffsets
    /\ fineSteps = 0
    /\ daySteps = 0
    /\ records = <<>>
    /\ calls = [c \in Calls |-> IdleCall]
    /\ begun = 0
    /\ last = NoOutcome

\* the clock moves on by StepMs
AdvanceFine ==
    /\ fineSteps < MaxFineSteps
    /\ now' = now + StepMs
    /\ fineSteps' = fineSteps + 1
    /\ UNCHANGED <<tzOffset, daySteps, records, calls, begun, last>>
    /\ UNCHANGED leaveVars
    /\ UNCHANGED clientVars

\* the clock moves on by a day
AdvanceDay ==
    /\ daySteps < MaxDaySteps
    /\ now' = now + MsPerDay
    /\ daySteps' = daySteps + 1
    /\ UNCHANGED <<tzOffset, fineSteps, records, calls, begun, last>>
    /\ UNCHANGED leaveVars
    /\ UNCHANGED clientVars

\* the clock moves on between two steps of the handlers
Advance == AdvanceFine \/ AdvanceDay

(***************************************************************************)
(* clockIn                                                                 *)
(***************************************************************************)
\* clockIn, lines 8-22: the user lookup, then today / startOfDay
BeginClockIn(c, u, n) == Begin(c, "clockIn", u, n)

ClockInFindNoCheck(c) ==
    /\ calls[c].op = "clockIn" /\ calls[c].pc = "find"
    /\ calls' = [calls EXCEPT ![c].pc = "clock"]
    /\ UNCHANGED <<now, tzOffset, fineSteps, daySteps, records, begun, last>>
    /\ UNCHANGED leaveVars
    /\ UNCHANGED clientVars

ClockInFindOpenOnly(c) ==
    /\ calls[c].op = "clockIn" /\ calls[c].pc = "find"
    /\ IF \E r \in RowsOf(calls[c].user_id, calls[c].date) : records[r].clock_out = Null
         THEN Return(c, "User has already clocked in today", NoRecord)
         ELSE calls' = [calls EXCEPT ![c].pc = "clock"] /\ UNCHANGED last
    /\ UNCHANGED <<now, tzOffset, fineSteps, daySteps, records, begun>>
    /\ UNCHANGED leaveVars
    /\ UNCHANGED clientVars

\* clockIn, lines 24-34: the select of today's record and the conflict check
ClockInFind(c) ==
    /\ calls[c].op = "clockIn" /\ calls[c].pc = "find"
    /\ IF RowsOf(calls[c].user_id, calls[c].date) # {}
         THEN Return(c, "User has already clocked in today", NoRecord)
         ELSE calls' = [calls EXCEPT ![c].pc = "clock"] /\ UNCHANGED last
    /\ UNCHANGED <<now, tzOffset, fineSteps, daySteps, records, begun>>
    /\ UNCHANGED leaveVars
    /\ UNCHANGED clientVars

\* clockIn, line 37: clockInTime = new Date()
ClockInReadClock(c) ==
    /\ calls[c].op = "clockIn" /\ calls[c].pc = "clock"
    /\ calls' = [calls EXCEPT ![c].pc = "write", ![c].t = now]
    /\ UNCHANGED <<now, tzOffset, fineSteps, daySteps, records, begun, last>>
    /\ UNCHANGED leaveVars
    /\ UNCHANGED clientVars

\* clockIn, lines 38-55: the insert and the returned record
ClockInInsert(c) ==
    /\ calls[c].op = "clockIn" /\ calls[c].pc = "write"
    /\ LET row == [user_id |-> calls[c].user_id, date |-> calls[c].date,
                   clock_in |-> calls[c].t, clock_out |-> Null,
                   total_hours |-> Null,
                   notes |-> NotesOr(calls[c].notes, NullNotes)]
       IN /\ records' = Append(records, row)
          /\ Return(c, "", ToAttendanceRecord(Len(records) + 1, row))
    /\ UNCHANGED <<now, tzOffset, fineSteps, daySteps, begun>>
    /\ UNCHANGED leaveVars
    /\ UNCHANGED clientVars

(***************************************************************************)
(* clockOut                                                                *)
(***************************************************************************)
\* numeric(5, 2) keeps hours to two decimals, rounding half up: the stored
\* value in hundredths of an hour for a duration of ms milliseconds
NumericRound(ms) ==
    (ms + MsPerHour \div (2 * NumericScale)) \div (MsPerHour \div NumericScale)

\* clockOut, lines 62-76: the user lookup, then today / startOfDay
BeginClockOut(c, u, n) == Begin(c, "clockOut", u, n)

ClockOutFindUpsert(c) ==
    /\ calls[c].op = "clockOut" /\ calls[c].pc = "find"
    /\ IF RowsOf(calls[c].user_id, calls[c].date) = {}
         THEN LET row == [user_id |-> calls[c].user_id, date |-> calls[c].date,
                          clock_in |-> now, clock_out |-> now, total_hours |-> 0,
                          notes |-> NotesOr(calls[c].notes, NullNotes)]
              IN /\ records' = Append(records, row)
                 /\ Return(c, "", ToAttendanceRecord(Len(records) + 1, row))
         ELSE /\ \E r \in RowsOf(calls[c].user_id, calls[c].date) :
                   IF records[r].clock_out # Null
                     THEN Return(c, "User has already clocked out today", NoRecord)
                     ELSE /\ calls' = [calls EXCEPT ![c].pc = "clock", ![c].rid = r,
                                          ![c].snapIn = records[r].clock_in,
                                          ![c].snapNotes = records[r].notes]
                          /\ UNCHANGED last
              /\ UNCHANGED records
    /\ UNCHANGED <<now, tzOffset, fineSteps, daySteps, begun>>
    /\ UNCHANGED leaveVars
    /\ UNCHANGED clientVars

ClockOutFindAnyOpen(c) ==
    /\ calls[c].op = "clockOut" /\ calls[c].pc = "find"
    /\ LET S == {i \in 1..Len(records) :
                    /\ records[i].user_id = calls[c].user_id
                    /\ records[i].clock_out = Null}
       IN IF S = {}
            THEN Return(c, "No clock-in record found for today", NoRecord)
            ELSE \E r \in S :
                   /\ calls' = [calls EXCEPT ![c].pc = "clock", ![c].rid = r,
                                    ![c].snapIn = records[r].clock_in,
                                    ![c].snapNotes = records[r].notes]
                   /\ UNCHANGED last
    /\ UNCHANGED <<now, tzOffset, fineSteps, daySteps, records, begun>>
    /\ UNCHANGED leaveVars
    /\ UNCHANGED clientVars

\* clockOut, lines 78-93: the select of today's record (existingRecord[0]:
\* the query has no ORDER BY, so any matching row may come first), the
\* not-found check and the already-clocked-out check
ClockOutFind(c) ==
    /\ calls[c].op = "clockOut" /\ calls[c].pc = "find"
    /\ IF RowsOf(calls[c].user_id, calls[c].date) = {}
         THEN Return(c, "No clock-in record found for today", NoRecord)
         ELSE \E r \in RowsOf(calls[c].user_id, calls[c].date) :
                IF records[r].clock_out # Null
                  THEN Return(c, "User has already clocked out today", NoRecord)
                  ELSE /\ calls' = [calls EXCEPT ![c].pc = "clock", ![c].rid = r,
                                       ![c].snapIn = records[r].clock_in,
                                       ![c].snapNotes = records[r].notes]
                       /\ UNCHANGED last
    /\ UNCHANGED <<now, tzOffset, fineSteps, daySteps, records, begun>>
    /\ UNCHANGED leaveVars
    /\ UNCHANGED clientVars

ClockOutReadStartOfDay(c) ==
    /\ calls[c].op = "clockOut" /\ calls[c].pc = "clock"
    /\ calls' = [calls EXCEPT ![c].pc = "write", ![c].t = StartOfDay(now),
                              ![c].total = StartOfDay(now) - calls[c].snapIn]
    /\ UNCHANGED <<now, tzOffset, fineSteps, daySteps, records, begun, last>>
    /\ UNCHANGED leaveVars
    /\ UNCHANGED clientVars

\* clockOut, lines 96-98: clockOutTime = new Date() and totalHours
ClockOutReadClock(c) ==
    /\ calls[c].op = "clockOut" /\ calls[c].pc = "clock"
    /\ calls' = [calls EXCEPT ![c].pc = "write", ![c].t = now,
                              ![c].total = now - calls[c].snapIn]
    /\ UNCHANGED <<now, tzOffset, fineSteps, daySteps, records, begun, last>>
    /\ UNCHANGED leaveVars
    /\ UNCHANGED clientVars

\* clockOut, lines 101-117: the update WHERE id = record.id and the
\* returned record
ClockOutUpdate(c) ==
    /\ calls[c].op = "clockOut" /\ calls[c].pc = "write"
    /\ LET r == calls[c].rid
           row == [records[r] EXCEPT
                     !.clock_out = calls[c].t,
                     !.total_hours = NumericRound(calls[c].total),
                     !.notes = NotesOr(calls[c].notes, calls[c].snapNotes)]
       IN /\ records' = [records EXCEPT ![r] = row]
          /\ Return(c, "", ToAttendanceRecord(r, row))
    /\ UNCHANGED <<now, tzOffset, fineSteps, daySteps, begun>>
    /\ UNCHANGED leaveVars
    /\ UNCHANGED clientVars

(***************************************************************************)
(* getTodayAttendanceStatus                                                *)
(***************************************************************************)
\* getTodayAttendanceStatus, lines 183-201: the user lookup, then today
BeginGetToday(c, u) == Begin(c, "getTodayAttendanceStatus", u, NullNotes)

GetTodaySelectNoOut(c) ==
    /\ calls[c].op = "getTodayAttendanceStatus" /\ calls[c].pc = "find"
    /\ calls' = [calls EXCEPT ![c] = IdleCall]
    /\ IF RowsOf(calls[c].user_id, calls[c].date) = {}
         THEN last' = Outcome(calls[c].op, "", NoRecord, FALSE, FALSE, <<>>)
         ELSE \E r \in RowsOf(calls[c].user_id, calls[c].date) :
                last' = Outcome(calls[c].op, "", ToAttendanceRecord(r, records[r]),
                                TRUE, FALSE, <<>>)
    /\ UNCHANGED <<now, tzOffset, fineSteps, daySteps, records, begun>>
    /\ UNCHANGED leaveVars
    /\ UNCHANGED clientVars

GetTodaySelectAnyDay(c) ==
    /\ calls[c].op = "getTodayAttendanceStatus" /\ calls[c].pc = "find"
    /\ calls' = [calls EXCEPT ![c] = IdleCall]
    /\ LET S == {i \in 1..Len(records) : records[i].user_id = calls[c].user_id}
       IN IF S = {}
            THEN last' = Outcome(calls[c].op, "", NoRecord, FALSE, FALSE, <<>>)
            ELSE \E r \in S :
                   last' = Outcome(calls[c].op, "", ToAttendanceRecord(r, records[r]),
                                   TRUE, records[r].clock_out # Null, <<>>)
    /\ UNCHANGED <<now, tzOffset, fineSteps, daySteps, records, begun>>
    /\ UNCHANGED leaveVars
    /\ UNCHANGED clientVars

\* getTodayAttendanceStatus, lines 203-230: the select of today's record
\* (records[0] of a query without ORDER BY) and the status derived from it
GetTodaySelect(c) ==
    /\ calls[c].op = "getTodayAttendanceStatus" /\ calls[c].pc = "find"
    /\ calls' = [calls EXCEPT ![c] = IdleCall]
    /\ IF RowsOf(calls[c].user_id, calls[c].date) = {}
         THEN last' = Outcome(calls[c].op, "", NoRecord, FALSE, FALSE, <<>>)
         ELSE \E r \in RowsOf(calls[c].user_id, calls[c].date) :
                last' = Outcome(calls[c].op, "", ToAttendanceRecord(r, records[r]),
                                TRUE, records[r].clock_out # Null, <<>>)
    /\ UNCHANGED <<now, tzOffset, fineSteps, daySteps, records, begun>>
    /\ UNCHANGED leaveVars
    /\ UNCHANGED clientVars

(***************************************************************************)
(* getUserAttendance                                                       *)
(***************************************************************************)
RowsInRangeExclusiveEnd(u, start, end) ==
    {i \in 1..Len(records) :
        /\ records[i].user_id = u
        /\ start # Null => records[i].date >= ToISODate(start)
        /\ end # Null => records[i].date < ToISODate(end)}

\* ids of the rows WHERE user_id = u AND date >= start AND date <= end,
\* each bound only if the input carries it (a Date is always truthy)
RowsInRange(u, start, end) ==
    {i \in 1..Len(records) :
        /\ records[i].user_id = u
        /\ start # Null => records[i].date >= ToISODate(start)
        /\ end # Null => records[i].date <= ToISODate(end)}

\* ORDER BY date DESC: every order of the rows S with dates non-increasing
\* (rows of equal date come in any order)
OrderedByDateDesc(S) ==
    {q \in [1..Cardinality(S) -> S] :
        /\ \A i, j \in 1..Cardinality(S) : i # j => q[i] # q[j]
        /\ \A i, j \in 1..Cardinality(S) :
              i < j => records[q[i]].date >= records[q[j]].date}

\* getUserAttendance, lines 124-163: the user lookup and the one select;
\* the handler reads no clock and the user table never changes, so the
\* call takes effect at its select
GetUserAttendance(u, start, end) ==
    /\ begun < MaxBegun
    /\ begun' = begun + 1
    /\ IF u \notin Users
         THEN last' = Outcome("getUserAttendance", "User not found", NoRecord,
                              FALSE, FALSE, <<>>)
         ELSE \E q \in OrderedByDateDesc(RowsInRange(u, start, end)) :
                last' = Outcome("getUserAttendance", "", NoRecord, FALSE, FALSE,
                          [k \in 1..Len(q) |-> ToAttendanceRecord(q[k], records[q[k]])])
    /\ UNCHANGED <<now, tzOffset, fineSteps, daySteps, records, calls>>
    /\ UNCHANGED leaveVars
    /\ UNCHANGED clientVars

Step(c) ==
    \/ ClockInFind(c)
    \/ ClockInReadClock(c)
    \/ ClockInInsert(c)
    \/ ClockOutFind(c)
    \/ ClockOutReadClock(c)
    \/ ClockOutUpdate(c)
    \/ GetTodaySelect(c)

(***************************************************************************)
(* Spec: calls of one user (and of an unknown id) that may overlap, as     *)
(* when a user submits twice.                                              *)
(***************************************************************************)
Next ==
    \/ Advance
    \/ \E c \in Calls, u \in OneUserIds, n \in ClockInNotes : BeginClockIn(c, u, n)
    \/ \E c \in Calls, u \in OneUserIds, n \in ClockOutNotes : BeginClockOut(c, u, n)
    \/ \E c \in Calls, u \in OneUserIds : BeginGetToday(c, u)
    \/ \E u \in OneUserIds, start \in RangeInputs, end \in RangeInputs :
          GetUserAttendance(u, start, end)
    \/ \E c \in Calls : Step(c)

Spec == Init /\ [][Next]_vars

(***************************************************************************)
(* SeqSpec: calls of all users, none overlapping another.                  *)
(***************************************************************************)
NoneInFlight == \A c \in Calls : ~InFlight(c)

SeqNext ==
    \/ Advance
    \/ \E c \in Calls, u \in UserIds, n \in ClockInNotes :
          NoneInFlight /\ BeginClockIn(c, u, n)
    \/ \E c \in Calls, u \in UserIds, n \in ClockOutNotes :
          NoneInFlight /\ BeginClockOut(c, u, n)
    \/ \E c \in Calls, u \in UserIds :
          NoneInFlight /\ BeginGetToday(c, u)
    \/ \E u \in UserIds, start \in SeqRangeInputs, end \in SeqRangeInputs :
          NoneInFlight /\ GetUserAttendance(u, start, end)
    \/ \E c \in Calls : Step(c)

SeqSpec == Init /\ [][SeqNext]_vars

(***************************************************************************)
(* OneSeqSpec: calls of one user (and of an unknown id), none overlapping  *)
(* another.                                                                *)
(***************************************************************************)
OneSeqNext ==
    \/ Advance
    \/ \E c \in Calls, u \in OneUserIds, n \in ClockInNotes :
          NoneInFlight /\ BeginClockIn(c, u, n)
    \/ \E c \in Calls, u \in OneUserIds, n \in ClockOutNotes :
          NoneInFlight /\ BeginClockOut(c, u, n)
    \/ \E c \in Calls, u \in OneUserIds :
          NoneInFlight /\ BeginGetToday(c, u)
    \/ \E u \in OneUserIds, start \in RangeInputs, end \in RangeInputs :
          NoneInFlight /\ GetUserAttendance(u, start, end)
    \/ \E c \in Calls : Step(c)

OneSeqSpec == Init /\ [][OneSeqNext]_vars

(***************************************************************************)
(* createLeaveRequest                                                      *)
(***************************************************************************)
BeginCreateLeaveRequestNoDateCheck(c, u, start, end) ==
    /\ FreeLeaveSlot(c)
    /\ begun < MaxBegun
    /\ begun' = begun + 1
    /\ IF u \notin Users
         THEN LeaveThrowAtOnce("createLeaveRequest", "User not found")
         ELSE /\ leaveCalls' = [leaveCalls EXCEPT ![c] =
                   [IdleLeaveCall EXCEPT !.op = "createLeaveRequest",
                                         !.pc = "write", !.user_id = u,
                                         !.start_date = start,
                                         !.end_date = end]]
              /\ UNCHANGED leaveLast
    /\ UNCHANGED <<now, tzOffset, fineSteps, daySteps, leaveRequests, nextLeaveId>>
    /\ UNCHANGED attendanceVars
    /\ UNCHANGED clientVars

BeginCreateLeaveRequestDatesFirst(c, u, start, end) ==
    /\ FreeLeaveSlot(c)
    /\ begun < MaxBegun
    /\ begun' = begun + 1
    /\ IF start > end
         THEN LeaveThrowAtOnce("createLeaveRequest",
                  "Start date must be before or equal to end date")
         ELSE IF u \notin Users
                THEN LeaveThrowAtOnce("createLeaveRequest", "User not found")
                ELSE /\ leaveCalls' = [leaveCalls EXCEPT ![c] =
                          [IdleLeaveCall EXCEPT !.op = "createLeaveRequest",
                                                !.pc = "write", !.user_id = u,
                                                !.start_date = start,
                                                !.end_date = end]]
                     /\ UNCHANGED leaveLast
    /\ UNCHANGED <<now, tzOffset, fineSteps, daySteps, leaveRequests, nextLeaveId>>
    /\ UNCHANGED attendanceVars
    /\ UNCHANGED clientVars

\* createLeaveRequest, lines 8-21: the user lookup (usersTable never
\* changes), then the check of the date range on the instants sent
BeginCreateLeaveRequest(c, u, start, end) ==
    /\ FreeLeaveSlot(c)
    /\ begun < MaxBegun
    /\ begun' = begun + 1
    /\ IF u \notin Users
         THEN LeaveThrowAtOnce("createLeaveRequest", "User not found")
         ELSE IF start > end
                THEN LeaveThrowAtOnce("createLeaveRequest",
                         "Start date must be before or equal to end date")
                ELSE /\ leaveCalls' = [leaveCalls EXCEPT ![c] =
                          [IdleLeaveCall EXCEPT !.op = "createLeaveRequest",
                                                !.pc = "write", !.user_id = u,
                                                !.start_date = start,
                                                !.end_date = end]]
                     /\ UNCHANGED leaveLast
    /\ UNCHANGED <<now, tzOffset, fineSteps, daySteps, leaveRequests, nextLeaveId>>
    /\ UNCHANGED attendanceVars
    /\ UNCHANGED clientVars

CreateLeaveRequestInsertCountId(c) ==
    /\ leaveCalls[c].op = "createLeaveRequest" /\ leaveCalls[c].pc = "write"
    /\ LET newId == Cardinality(LeaveIds) + 1
           row == [user_id |-> leaveCalls[c].user_id,
                   start_date |-> ToISODate(leaveCalls[c].start_date),
                   end_date |-> ToISODate(leaveCalls[c].end_date),
                   status |-> "pending", approved_by |-> Null,
                   approved_at |-> Null, rejection_reason |-> NullNotes,
                   created_at |-> now, wasDecided |-> FALSE]
       IN /\ leaveRequests' =
                [i \in LeaveIds \cup {newId} |->
                    IF i = newId THEN row ELSE leaveRequests[i]]
          /\ nextLeaveId' = nextLeaveId + 1
          /\ LeaveReturn(c, "", ToLeaveRequest(newId, row), FALSE)
    /\ UNCHANGED <<now, tzOffset, fineSteps, daySteps, begun>>
    /\ UNCHANGED attendanceVars
    /\ UNCHANGED clientVars

\* createLeaveRequest, lines 23-42: the insert (id from the serial,
\* created_at from defaultNow(), the other columns null) and the returned
\* request
CreateLeaveRequestInsert(c) ==
    /\ leaveCalls[c].op = "createLeaveRequest" /\ leaveCalls[c].pc = "write"
    /\ LET row == [user_id |-> leaveCalls[c].user_id,
                   start_date |-> ToISODate(leaveCalls[c].start_date),
                   end_date |-> ToISODate(leaveCalls[c].end_date),
                   status |-> "pending", approved_by |-> Null,
                   approved_at |-> Null, rejection_reason |-> NullNotes,
                   created_at |-> now, wasDecided |-> FALSE]
       IN /\ leaveRequests' =
                [i \in LeaveIds \cup {nextLeaveId} |->
                    IF i = nextLeaveId THEN row ELSE leaveRequests[i]]
          /\ nextLeaveId' = nextLeaveId + 1
          /\ LeaveReturn(c, "", ToLeaveRequest(nextLeaveId, row), FALSE)
    /\ UNCHANGED <<now, tzOffset, fineSteps, daySteps, begun>>
    /\ UNCHANGED attendanceVars
    /\ UNCHANGED clientVars

(***************************************************************************)
(* updateLeaveRequestStatus                                                *)
(***************************************************************************)
\* updateLeaveRequestStatus, lines 51-59: the call is made with (id,
\* status, approved_by, rejection_reason) and selects the request
BeginUpdateLeaveRequestStatus(c, id, status, by, reason) ==
    /\ FreeLeaveSlot(c)
    /\ begun < MaxBegun
    /\ begun' = begun + 1
    /\ IF id \notin LeaveIds
         THEN LeaveThrowAtOnce("updateLeaveRequestStatus", "Leave request not found")
         ELSE /\ leaveCalls' = [leaveCalls EXCEPT ![c] =
                   [IdleLeaveCall EXCEPT !.op = "updateLeaveRequestStatus",
                                         !.pc = "approver", !.id = id,
                                         !.status = status, !.approved_by = by,
                                         !.rejection_reason = reason]]
              /\ UNCHANGED leaveLast
    /\ UNCHANGED <<now, tzOffset, fineSteps, daySteps, leaveRequests, nextLeaveId>>
    /\ UNCHANGED attendanceVars

UpdateStatusFindApproverNoCheck(c) ==
    /\ leaveCalls[c].op = "updateLeaveRequestStatus" /\ leaveCalls[c].pc = "approver"
    /\ leaveCalls' = [leaveCalls EXCEPT ![c].pc = "write", ![c].t = now]
    /\ UNCHANGED <<now, tzOffset, fineSteps, daySteps, begun, leaveRequests,
                   nextLeaveId, leaveLast>>
    /\ UNCHANGED attendanceVars
    /\ UNCHANGED clientVars

\* updateLeaveRequestStatus, lines 61-77: the select of the approver, then
\* updateData with approved_at = new Date() or null
UpdateStatusFindApprover(c) ==
    /\ leaveCalls[c].op = "updateLeaveRequestStatus" /\ leaveCalls[c].pc = "approver"
    /\ IF leaveCalls[c].approved_by \notin Users
         THEN LeaveReturn(c, "Approver not found", NoLeaveRequest, FALSE)
         ELSE /\ leaveCalls' = [leaveCalls EXCEPT ![c].pc = "write", ![c].t = now]
              /\ UNCHANGED leaveLast
    /\ UNCHANGED <<now, tzOffset, fineSteps, daySteps, begun, leaveRequests,
                   nextLeaveId>>
    /\ UNCHANGED attendanceVars
    /\ UNCHANGED clientVars

UpdateStatusWriteStampAlways(c) ==
    /\ leaveCalls[c].op = "updateLeaveRequestStatus" /\ leaveCalls[c].pc = "write"
    /\ IF leaveCalls[c].id \in LeaveIds
         THEN LET id == leaveCalls[c].id
                  row == [leaveRequests[id] EXCEPT
                            !.status = leaveCalls[c].status,
                            !.approved_by = leaveCalls[c].approved_by,
                            !.approved_at = leaveCalls[c].t,
                            !.rejection_reason =
                                ReasonOrNull(leaveCalls[c].rejection_reason),
                            !.wasDecided =
                                WasDecided(leaveRequests[id], leaveCalls[c].status)]
              IN /\ leaveRequests' = [leaveRequests EXCEPT ![id] = row]
                 /\ LeaveReturn(c, "", ToLeaveRequest(id, row), FALSE)
         ELSE /\ LeaveReturn(c, "TypeError", NoLeaveRequest, FALSE)
              /\ UNCHANGED leaveRequests
    /\ UNCHANGED <<now, tzOffset, fineSteps, daySteps, begun, nextLeaveId>>
    /\ UNCHANGED attendanceVars
    /\ UNCHANGED clientVars

\* updateLeaveRequestStatus, lines 79-91: the update WHERE id = input.id
\* and the returned request; if the row is gone by now the update returns
\* no row and reading result[0].start_date throws a TypeError
UpdateStatusWrite(c) ==
    /\ leaveCalls[c].op = "updateLeaveRequestStatus" /\ leaveCalls[c].pc = "write"
    /\ IF leaveCalls[c].id \in LeaveIds
         THEN LET id == leaveCalls[c].id
                  row == [leaveRequests[id] EXCEPT
                            !.status = leaveCalls[c].status,
                            !.approved_by = leaveCalls[c].approved_by,
                            !.approved_at =
                                IF leaveCalls[c].status = "approved"
                                  THEN leaveCalls[c].t ELSE Null,
                            !.rejection_reason =
                                ReasonOrNull(leaveCalls[c].rejection_reason),
                            !.wasDecided =
                                WasDecided(leaveRequests[id], leaveCalls[c].status)]
              IN /\ leaveRequests' = [leaveRequests EXCEPT ![id] = row]
                 /\ LeaveReturn(c, "", ToLeaveRequest(id, row), FALSE)
         ELSE /\ LeaveReturn(c, "TypeError", NoLeaveRequest, FALSE)
              /\ UNCHANGED leaveRequests
    /\ UNCHANGED <<now, tzOffset, fineSteps, daySteps, begun, nextLeaveId>>
    /\ UNCHANGED attendanceVars
    /\ UNCHANGED clientVars

(***************************************************************************)
(* deleteLeaveRequest                                                      *)
(***************************************************************************)
BeginDeleteLeaveRequestAnyStatus(c, id, u) ==
    /\ FreeLeaveSlot(c)
    /\ begun < MaxBegun
    /\ begun' = begun + 1
    /\ IF ~(id \in LeaveIds /\ leaveRequests[id].user_id = u)
         THEN LeaveThrowAtOnce("deleteLeaveRequest",
                  "Leave request not found or does not belong to user")
         ELSE /\ leaveCalls' = [leaveCalls EXCEPT ![c] =
                   [IdleLeaveCall EXCEPT !.op = "deleteLeaveRequest",
                                         !.pc = "write", !.id = id,
                                         !.user_id = u]]
              /\ UNCHANGED leaveLast
    /\ UNCHANGED <<now, tzOffset, fineSteps, daySteps, leaveRequests, nextLeaveId>>
    /\ UNCHANGED attendanceVars
    /\ UNCHANGED clientVars

\* deleteLeaveRequest, lines 172-190: the call is made with (requestId,
\* userId); the select WHERE id = requestId AND user_id = userId, the
\* not-found check and the pending check
BeginDeleteLeaveRequest(c, id, u) ==
    /\ FreeLeaveSlot(c)
    /\ begun < MaxBegun
    /\ begun' = begun + 1
    /\ IF ~(id \in LeaveIds /\ leaveRequests[id].user_id = u)
         THEN LeaveThrowAtOnce("deleteLeaveRequest",
                  "Leave request not found or does not belong to user")
         ELSE IF leaveRequests[id].status # "pending"
                THEN LeaveThrowAtOnce("deleteLeaveRequest",
                         "Only pending leave requests can be deleted")
                ELSE /\ leaveCalls' = [leaveCalls EXCEPT ![c] =
                          [IdleLeaveCall EXCEPT !.op = "deleteLeaveRequest",
                                                !.pc = "write", !.id = id,
                                                !.user_id = u]]
                     /\ UNCHANGED leaveLast
    /\ UNCHANGED <<now, tzOffset, fineSteps, daySteps, leaveRequests, nextLeaveId>>
    /\ UNCHANGED attendanceVars
    /\ UNCHANGED clientVars

DeleteLeaveRequestDeleteOfUser(c) ==
    /\ leaveCalls[c].op = "deleteLeaveRequest" /\ leaveCalls[c].pc = "write"
    /\ leaveRequests' =
          [i \in {j \in LeaveIds : leaveRequests[j].user_id # leaveCalls[c].user_id}
              |-> leaveRequests[i]]
    /\ LeaveReturn(c, "", NoLeaveRequest, TRUE)
    /\ UNCHANGED <<now, tzOffset, fineSteps, daySteps, begun, nextLeaveId>>
    /\ UNCHANGED attendanceVars
    /\ UNCHANGED clientVars

\* deleteLeaveRequest, lines 192-197: the delete WHERE id = requestId and
\* { success: true }
DeleteLeaveRequestDelete(c) ==
    /\ leaveCalls[c].op = "deleteLeaveRequest" /\ leaveCalls[c].pc = "write"
    /\ leaveRequests' = [i \in LeaveIds \ {leaveCalls[c].id} |-> leaveRequests[i]]
    /\ LeaveReturn(c, "", NoLeaveRequest, TRUE)
    /\ UNCHANGED <<now, tzOffset, fineSteps, daySteps, begun, nextLeaveId>>
    /\ UNCHANGED attendanceVars
    /\ UNCHANGED clientVars

(***************************************************************************)
(* getUserLeaveRequests, getAllLeaveRequests, getPendingLeaveRequests      *)
(***************************************************************************)
OrderedByCreatedAsc(S) ==
    {q \in [1..Cardinality(S) -> S] :
        /\ \A i, j \in 1..Cardinality(S) : i # j => q[i] # q[j]
        /\ \A i, j \in 1..Cardinality(S) :
              i < j => leaveRequests[q[i]].created_at <= leaveRequests[q[j]].created_at}

\* ORDER BY created_at DESC: every order of the rows S with created_at
\* non-increasing (rows of equal created_at come in any order)
OrderedByCreatedDesc(S) ==
    {q \in [1..Cardinality(S) -> S] :
        /\ \A i, j \in 1..Cardinality(S) : i # j => q[i] # q[j]
        /\ \A i, j \in 1..Cardinality(S) :
              i < j => leaveRequests[q[i]].created_at >= leaveRequests[q[j]].created_at}

\* a list query returns the rows S in an order of ORDER BY created_at DESC;
\* the query is one select, so the call takes effect at once
LeaveList(op, S) ==
    /\ begun < MaxBegun
    /\ begun' = begun + 1
    /\ \E q \in OrderedByCreatedDesc(S) :
          leaveLast' = LeaveOutcome(op, "", NoLeaveRequest, FALSE,
                         [k \in 1..Len(q) |-> ToLeaveRequest(q[k], leaveRequests[q[k]])])
    /\ UNCHANGED <<now, tzOffset, fineSteps, daySteps, leaveRequests,
                   nextLeaveId, leaveCalls>>
    /\ UNCHANGED attendanceVars

\* getUserLeaveRequests, lines 98-127: the user lookup and the select
\* WHERE user_id = userId
GetUserLeaveRequests(u) ==
    IF u \notin Users
      THEN /\ begun < MaxBegun
           /\ begun' = begun + 1
           /\ LeaveThrowAtOnce("getUserLeaveRequests", "User not found")
           /\ UNCHANGED <<now, tzOffset, fineSteps, daySteps, leaveRequests,
                          nextLeaveId>>
           /\ UNCHANGED attendanceVars
      ELSE LeaveList("getUserLeaveRequests",
                     {i \in LeaveIds : leaveRequests[i].user_id = u})

\* getAllLeaveRequests, lines 129-147
GetAllLeaveRequests == LeaveList("getAllLeaveRequests", LeaveIds)

\* getPendingLeaveRequests, lines 149-168: WHERE status = 'pending'
GetPendingLeaveRequests ==
    LeaveList("getPendingLeaveRequests",
              {i \in LeaveIds : leaveRequests[i].status = "pending"})

LeaveStep(c) ==
    \/ CreateLeaveRequestInsert(c)
    \/ UpdateStatusFindApprover(c)
    \/ UpdateStatusWrite(c)
    \/ DeleteLeaveRequestDelete(c)

(***************************************************************************)
(* LeaveSpec: leave-request calls of all users, none overlapping another.  *)
(* The leave-request handlers read no local time and no calendar day: the  *)
(* server runs in UTC and the clock advances by StepMs only.               *)
(***************************************************************************)
LeaveInit == Init /\ tzOffset = 0

LeaveNext ==
    \/ AdvanceFine
    \/ \E c \in Calls, u \in UserIds, start \in LeaveDateInputs,
          end \in LeaveDateInputs :
          NoLeaveCallInFlight /\ BeginCreateLeaveRequest(c, u, start, end)
    \/ \E c \in Calls, id \in LeaveIdInputs, status \in LeaveStatuses,
          by \in UserIds, reason \in RejectionReasons :
          /\ NoLeaveCallInFlight
          /\ BeginUpdateLeaveRequestStatus(c, id, status, by, reason)
          /\ UNCHANGED clientVars
    \/ \E c \in Calls, id \in LeaveIdInputs, u \in UserIds :
          NoLeaveCallInFlight /\ BeginDeleteLeaveRequest(c, id, u)
    \/ \E u \in UserIds :
          NoLeaveCallInFlight /\ GetUserLeaveRequests(u) /\ UNCHANGED clientVars
    \/ NoLeaveCallInFlight /\ GetAllLeaveRequests /\ UNCHANGED clientVars
    \/ NoLeaveCallInFlight /\ GetPendingLeaveRequests /\ UNCHANGED clientVars
    \/ \E c \in Calls : LeaveStep(c)

LeaveSpec == LeaveInit /\ [][LeaveNext]_vars

(***************************************************************************)
(* MixedSpec: attendance and leave-request calls of all users, none        *)
(* overlapping another, within one day of a server that runs in UTC.       *)
(***************************************************************************)
\* a call may be made: none is in flight
Quiet == NoneInFlight /\ NoLeaveCallInFlight /\ begun < MaxMixedBegun

MixedNext ==
    \/ AdvanceFine
    \/ \E c \in Calls, u \in UserIds, n \in ClockInNotes :
          Quiet /\ BeginClockIn(c, u, n)
    \/ \E c \in Calls, u \in UserIds, n \in ClockOutNotes :
          Quiet /\ BeginClockOut(c, u, n)
    \/ \E c \in Calls, u \in UserIds : Quiet /\ BeginGetToday(c, u)
    \/ \E u \in UserIds, start \in RangeInputs, end \in RangeInputs :
          Quiet /\ GetUserAttendance(u, start, end)
    \/ \E c \in Calls : Step(c)
    \/ \E c \in Calls, u \in UserIds, start \in LeaveDateInputs,
          end \in LeaveDateInputs :
          Quiet /\ BeginCreateLeaveRequest(c, u, start, end)
    \/ \E c \in Calls, id \in LeaveIdInputs, status \in LeaveStatuses,
          by \in UserIds, reason \in RejectionReasons :
          /\ Quiet
          /\ BeginUpdateLeaveRequestStatus(c, id, status, by, reason)
          /\ UNCHANGED clientVars
    \/ \E c \in Calls, id \in LeaveIdInputs, u \in UserIds :
          Quiet /\ BeginDeleteLeaveRequest(c, id, u)
    \/ \E u \in UserIds : Quiet /\ GetUserLeaveRequests(u) /\ UNCHANGED clientVars
    \/ Quiet /\ GetAllLeaveRequests /\ UNCHANGED clientVars
    \/ Quiet /\ GetPendingLeaveRequests /\ UNCHANGED clientVars
    \/ \E c \in Calls : LeaveStep(c)

MixedSpec == LeaveInit /\ [][MixedNext]_vars

(***************************************************************************)
(* login                                                                   *)
(***************************************************************************)
LoginNoActiveCheck(email, password) ==
    /\ begun < MaxBegun
    /\ begun' = begun + 1
    /\ LET users == {u \in Users : UserEmail[u] = email}
       IN IF users = {}
            THEN loginLast' = LoginOutcome("Invalid credentials", 0, NoToken)
            ELSE \E u \in users :
                   IF ~ComparePassword(password, PasswordHash[u])
                     THEN loginLast' = LoginOutcome("Invalid credentials", 0, NoToken)
                     ELSE loginLast' = LoginOutcome("", u,
                              CreateToken(u, UserEmail[u], UserRole[u]))
    /\ UNCHANGED <<now, tzOffset, fineSteps, daySteps, panel>>
    /\ UNCHANGED attendanceVars
    /\ UNCHANGED leaveVars

\* login, lines 263-316: the select of the user by email, the three
\* checks in the order of the code, and { user, token }.  The handler
\* has one storage statement, a select, so the call takes effect at once
Login(email, password) ==
    /\ begun < MaxBegun
    /\ begun' = begun + 1
    /\ LET users == {u \in Users : UserEmail[u] = email}
       IN IF users = {}
            THEN loginLast' = LoginOutcome("Invalid credentials", 0, NoToken)
            ELSE \E u \in users :
                   IF ~UserActive[u]
                     THEN loginLast' = LoginOutcome("Account is inactive", 0, NoToken)
                     ELSE IF ~ComparePassword(password, PasswordHash[u])
                            THEN loginLast' =
                                   LoginOutcome("Invalid credentials", 0, NoToken)
                            ELSE loginLast' = LoginOutcome("", u,
                                     CreateToken(u, UserEmail[u], UserRole[u]))
    /\ UNCHANGED <<now, tzOffset, fineSteps, daySteps, panel>>
    /\ UNCHANGED attendanceVars
    /\ UNCHANGED leaveVars

(***************************************************************************)
(* AuthSpec: logins and attendance calls of every row of usersTable (the   *)
(* inactive one too) and of the unknown id, none overlapping another,      *)
(* within one day of a server that runs in UTC.                            *)
(***************************************************************************)
AuthNext ==
    \/ AdvanceFine
    \/ \E email \in EmailInputs, password \in PasswordInputs :
          Quiet /\ Login(email, password)
    \/ \E c \in Calls, u \in AllUserIds, n \in ClockInNotes :
          Quiet /\ BeginClockIn(c, u, n)
    \/ \E c \in Calls, u \in AllUserIds, n \in ClockOutNotes :
          Quiet /\ BeginClockOut(c, u, n)
    \/ \E c \in Calls, u \in AllUserIds : Quiet /\ BeginGetToday(c, u)
    \/ \E c \in Calls : Step(c)

AuthSpec == LeaveInit /\ [][AuthNext]_vars

(***************************************************************************)
(* AdminPanel: the leave-request tab of the admin's panel.  A handler of   *)
(* the component runs with the state of the render it was created in:      *)
(* panel is that state, and a setState call of a handler shows only in     *)
(* panel', the state of the next render.                                   *)
(***************************************************************************)
\* the rows of the table of pending requests
DisplayedRows ==
    {panel.pendingLeaveRequests[k] : k \in 1..Len(panel.pendingLeaveRequests)}

\* prev.filter(req => req.id # id)
WithoutRequest(list, id) == SelectSeq(list, LAMBDA x : x # id)

\* text the admin may type as the reason for rejection
TypedReasons == {"", "X"}

\* useEffect / loadPendingLeaveRequests, lines 70-83: on mount the panel
\* queries getPendingLeaveRequests and keeps the list
PanelMount ==
    /\ ~panel.mounted
    /\ NoLeaveCallInFlight
    /\ GetPendingLeaveRequests
    /\ panel' = [panel EXCEPT
                   !.mounted = TRUE,
                   !.pendingLeaveRequests =
                       [k \in 1..Len(leaveLast'.list) |-> leaveLast'.list[k].id]]
    /\ UNCHANGED loginLast

\* handleUpdateLeaveRequestStatus(status), lines 114-125, called by a
\* click handler of the current render; next is the panel as the click
\* handler's own setState calls leave it.  The function reads
\* selectedRequest and rejectionReason of the current render: it returns
\* if selectedRequest is null, and else sets isLoading and sends the
\* mutation with id = selectedRequest.id
HandleUpdateLeaveRequestStatus(c, status, next) ==
    IF panel.selectedRequest = Null
      THEN /\ panel' = next
           /\ UNCHANGED <<now, tzOffset, fineSteps, daySteps, begun>>
           /\ UNCHANGED attendanceVars
           /\ UNCHANGED leaveVars
      ELSE /\ BeginUpdateLeaveRequestStatus(c, panel.selectedRequest, status,
                  CurrentUser,
                  IF status = "rejected" THEN panel.rejectionReason ELSE NullNotes)
           /\ panel' = [next EXCEPT !.isLoading = TRUE,
                                    !.sending = panel.selectedRequest]

\* the Approve button of row R, lines 477-487 (disabled while isLoading;
\* an open dialog is modal): setSelectedRequest(request), then
\* handleUpdateLeaveRequestStatus('approved')
ClickApprove(c, R) ==
    /\ panel.mounted /\ R \in DisplayedRows
    /\ ~panel.isLoading /\ panel.dialog = Null
    /\ HandleUpdateLeaveRequestStatus(c, "approved",
           [panel EXCEPT !.selectedRequest = R])
    /\ UNCHANGED loginLast

\* the Reject button of row R, lines 488-497: setSelectedRequest(request),
\* and the dialog of the row opens
OpenRejectDialog(R) ==
    /\ panel.mounted /\ R \in DisplayedRows
    /\ panel.dialog = Null
    /\ panel' = [panel EXCEPT !.selectedRequest = R, !.dialog = R]
    /\ UNCHANGED <<now, tzOffset, fineSteps, daySteps, begun, loginLast>>
    /\ UNCHANGED attendanceVars
    /\ UNCHANGED leaveVars

\* the Textarea of the dialog, lines 506-513: setRejectionReason
TypeReason(x) ==
    /\ panel.dialog # Null
    /\ x # panel.rejectionReason
    /\ panel' = [panel EXCEPT !.rejectionReason = x]
    /\ UNCHANGED <<now, tzOffset, fineSteps, daySteps, begun, loginLast>>
    /\ UNCHANGED attendanceVars
    /\ UNCHANGED leaveVars

\* the Cancel button of the dialog, lines 516-524: setSelectedRequest(null)
\* and setRejectionReason(''); the button does not close the dialog
ClickCancel ==
    /\ panel.dialog # Null
    /\ panel' = [panel EXCEPT !.selectedRequest = Null, !.rejectionReason = ""]
    /\ UNCHANGED <<now, tzOffset, fineSteps, daySteps, begun, loginLast>>
    /\ UNCHANGED attendanceVars
    /\ UNCHANGED leaveVars

\* the dialog is dismissed (Escape, its close button, a click outside),
\* line 488: the Dialog keeps its own open state and no handler of the
\* panel runs
DismissDialog ==
    /\ panel.dialog # Null
    /\ panel' = [panel EXCEPT !.dialog = Null]
    /\ UNCHANGED <<now, tzOffset, fineSteps, daySteps, begun, loginLast>>
    /\ UNCHANGED attendanceVars
    /\ UNCHANGED leaveVars

\* the Reject Request button of the dialog, lines 525-531 (disabled while
\* isLoading or while the reason is blank):
\* handleUpdateLeaveRequestStatus('rejected')
ClickRejectRequest(c) ==
    /\ panel.dialog # Null
    /\ ~panel.isLoading /\ panel.rejectionReason # ""
    /\ HandleUpdateLeaveRequestStatus(c, "rejected", panel)
    /\ UNCHANGED loginLast

\* handleUpdateLeaveRequestStatus, lines 127-144: the mutation settles.
\* On success the request whose id the handler captured is filtered out
\* of the list (the dialog of that row goes with the row), selectedRequest
\* and rejectionReason are reset; on failure the message is set; finally
\* isLoading is reset
PanelSettle ==
    /\ panel.isLoading
    /\ NoLeaveCallInFlight
    /\ IF leaveLast.err = ""
         THEN panel' = [panel EXCEPT
                  !.pendingLeaveRequests =
                      WithoutRequest(panel.pendingLeaveRequests, panel.sending),
                  !.dialog = IF panel.dialog = panel.sending THEN Null
                                                              ELSE panel.dialog,
                  !.selectedRequest = Null, !.rejectionReason = "",
                  !.message = "success", !.isLoading = FALSE, !.sending = Null]
         ELSE panel' = [panel EXCEPT
                  !.message = "error", !.isLoading = FALSE, !.sending = Null]
    /\ UNCHANGED <<now, tzOffset, fineSteps, daySteps, begun, loginLast>>
    /\ UNCHANGED attendanceVars
    /\ UNCHANGED leaveVars

(***************************************************************************)
(* PanelSpec: the employees create and delete leave requests, the admin    *)
(* opens the panel and works through the pending requests; no call         *)
(* overlaps another.                                                       *)
(***************************************************************************)
\* a call of an employee may be made: none is in flight and the panel
\* awaits no answer
PanelQuiet == NoLeaveCallInFlight /\ ~panel.isLoading

PanelNext ==
    \/ AdvanceFine
    \/ \E c \in Calls, u \in Users \ {CurrentUser}, d \in LeaveDateInputs :
          PanelQuiet /\ BeginCreateLeaveRequest(c, u, d, d)
    \/ \E c \in Calls, id \in LeaveIdInputs, u \in Users \ {CurrentUser} :
          PanelQuiet /\ BeginDeleteLeaveRequest(c, id, u)
    \/ \E c \in Calls : LeaveStep(c)
    \/ PanelMount
    \/ \E c \in Calls, R \in LeaveIds \cup DisplayedRows : ClickApprove(c, R)
    \/ \E R \in LeaveIds \cup DisplayedRows : OpenRejectDialog(R)
    \/ \E x \in TypedReasons : TypeReason(x)
    \/ ClickCancel
    \/ DismissDialog
    \/ \E c \in Calls : ClickRejectRequest(c)
    \/ PanelSettle

PanelSpec == LeaveInit /\ [][PanelNext]_vars

(***************************************************************************)
(* Properties of the attendance ledger.                                    *)
(***************************************************************************)
RecordIds == 1..Len(records)

Closed(r) == records[r].clock_out # Null

\* the step is call c's, and c is at pc of op
StepOf(c, op, pc) ==
    calls[c].op = op /\ calls[c].pc = pc /\ calls'[c] # calls[c]

Threw(op, msg) == last.op = op /\ last.err = msg

\* C1: with no two calls overlapping, there is at most one attendance
\* record for each (user_id, date), whatever the users do and however
\* the day advances.  (SeqSpec)
C1_OneRecordPerUserDay ==
    \A i, j \in RecordIds :
        (records[i].user_id = records[j].user_id /\ records[i].date = records[j].date)
            => i = j

\* C1 witness: a user has records of two different days, and a second
\* clockIn of a day was refused
C1_Witness ==
    /\ Threw("clockIn", "User has already clocked in today")
    /\ \E i, j \in RecordIds :
          records[i].user_id = records[j].user_id /\ records[i].date # records[j].date

\* C2: also when clockIn calls of one user overlap, at most one of them
\* succeeds: no (user, day) has more than one record.  (Spec; every
\* successful clockIn inserts one row and no row is ever deleted, so the
\* rows of a (user, day) count the successful calls)
C2_OneRecordUnderOverlap ==
    \A u \in Users : \A i \in RecordIds :
        Cardinality(RowsOf(u, records[i].date)) <= 1

\* C3: also when clockOut calls overlap, clock_out and total_hours of a
\* record are written once: a step never changes them once clock_out is
\* set.  (Spec)
C3_ClockOutWrittenOnce ==
    [][\A r \in RecordIds :
          Closed(r) => /\ records'[r].clock_out = records[r].clock_out
                       /\ records'[r].total_hours = records[r].total_hours]_vars

\* C4: the status of a (user, day) only moves NotClockedIn -> ClockedIn ->
\* ClockedOut: no record is deleted; a new record is the work of a
\* successful clockIn and has clock_out = null; clock_out goes from null
\* to non-null only by a successful clockOut; and clock_in, clock_out and
\* total_hours never change once clock_out is set.  (Spec)
C4_Lifecycle ==
    [][/\ Len(records') >= Len(records)
       /\ \A r \in RecordIds :
             /\ records'[r].user_id = records[r].user_id
             /\ records'[r].date = records[r].date
             /\ records'[r].clock_in = records[r].clock_in
             /\ Closed(r) => /\ records'[r].clock_out = records[r].clock_out
                             /\ records'[r].total_hours = records[r].total_hours
             /\ (~Closed(r) /\ records'[r].clock_out # Null)
                    => last'.op = "clockOut" /\ last'.err = ""
       /\ \A r \in (Len(records) + 1)..Len(records') :
             /\ records'[r].clock_out = Null
             /\ last'.op = "clockIn" /\ last'.err = ""]_vars

\* C5: a clockIn that finds a record of (user, today), open or clocked
\* out, throws 'User has already clocked in today' and leaves the table
\* as it is.  (Spec)
C5_DoubleClockInRefused ==
    [][\A c \in Calls :
          (StepOf(c, "clockIn", "find")
             /\ RowsOf(calls[c].user_id, calls[c].date) # {})
          => /\ last'.op = "clockIn"
             /\ last'.err = "User has already clocked in today"
             /\ ~InFlight(c)'
             /\ records' = records]_vars

\* C5 witness: a clockIn was refused while the day's record is clocked out
C5_Witness ==
    /\ Threw("clockIn", "User has already clocked in today")
    /\ \E r \in RecordIds : Closed(r) /\ records[r].date = TodayKey(now)

\* C6: a clockOut of an existing user that finds no record of (user,
\* today) throws 'No clock-in record found for today' and leaves the
\* table as it is: it creates no record.  (Spec)
C6_ClockOutWithoutClockIn ==
    [][\A c \in Calls :
          (StepOf(c, "clockOut", "find")
             /\ RowsOf(calls[c].user_id, calls[c].date) = {})
          => /\ last'.op = "clockOut"
             /\ last'.err = "No clock-in record found for today"
             /\ ~InFlight(c)'
             /\ records' = records]_vars

\* C6 witness: a clockOut was refused for want of today's record, while
\* the table holds a record of an earlier day
C6_Witness ==
    /\ Threw("clockOut", "No clock-in record found for today")
    /\ records # <<>>
    /\ \A r \in RecordIds : records[r].date # TodayKey(now)

\* C7: a clockOut made after a clockOut of the same user and day has
\* succeeded throws 'User has already clocked out today' and leaves the
\* table as it is.  (Spec)
C7_LaterClockOutRefused ==
    [][\A c \in Calls :
          (StepOf(c, "clockOut", "find") /\ calls[c].afterClockOut)
          => /\ last'.op = "clockOut"
             /\ last'.err = "User has already clocked out today"
             /\ records' = records]_vars

\* total_hours is null exactly when clock_out is null
HoursIffClockOut(rec) == (rec.total_hours # Null) <=> (rec.clock_out # Null)

\* C8: total_hours is non-null iff clock_out is non-null, for every
\* stored record and for every record a handler returns (clockIn,
\* clockOut, getTodayAttendanceStatus, getUserAttendance), a duration of
\* zero included.  (Spec)
C8_TotalHoursIffClockOut ==
    /\ \A r \in RecordIds : HoursIffClockOut(records[r])
    /\ HoursIffClockOut(last.ret)
    /\ \A k \in 1..Len(last.list) : HoursIffClockOut(last.list[k])

\* C8 witness: getTodayAttendanceStatus returned a clocked-out record of
\* duration zero
C8_Witness ==
    /\ last.op = "getTodayAttendanceStatus" /\ last.err = ""
    /\ last.ret.clock_out # Null
    /\ last.ret.clock_out = last.ret.clock_in
    /\ last.ret.total_hours = 0

\* C9: for every record with clock_out set, total_hours is exactly
\* clock_out - clock_in (total_hours is in hundredths of an hour, the
\* timestamps in ms), and no later step changes it.  (Spec)
C9_TotalHoursExact ==
    /\ [](\A r \in RecordIds :
            Closed(r) => records[r].total_hours * (MsPerHour \div NumericScale)
                            = records[r].clock_out - records[r].clock_in)
    /\ [][\A r \in RecordIds :
            Closed(r) => records'[r].total_hours = records[r].total_hours]_vars

\* C10 as claimed: every record with clock_out set has clock_out strictly
\* later than clock_in.  (Spec)
C10_ClockOutStrictlyLater ==
    \A r \in RecordIds : Closed(r) => records[r].clock_out > records[r].clock_in

\* C10 as amended: every record with clock_out set has clock_out at or
\* after clock_in; the two are equal when clockIn and clockOut read the
\* same clock value.  (Spec)
C10_ClockOutNotEarlier ==
    \A r \in RecordIds : Closed(r) => records[r].clock_out >= records[r].clock_in

\* C10 witness: a record clocked out at the instant it was clocked in
C10_Witness ==
    \E r \in RecordIds : Closed(r) /\ records[r].clock_out = records[r].clock_in

(***************************************************************************)
(* Properties of the leave requests.                                       *)
(***************************************************************************)
\* approved or rejected
Decided(row) == row.status \in {"approved", "rejected"}

\* the step is leave call c's, and c is at pc of op
LeaveStepOf(c, op, pc) ==
    leaveCalls[c].op = op /\ leaveCalls[c].pc = pc /\ leaveCalls'[c] # leaveCalls[c]

LeaveThrew(op, msg) == leaveLast.op = op /\ leaveLast.err = msg

\* C11: a request that is approved or rejected keeps its status, and its
\* approved_by, approved_at and rejection_reason, in every later step.
\* (LeaveSpec)
C11_DecidedStatusFinal ==
    [][\A i \in LeaveIds :
          (Decided(leaveRequests[i]) /\ i \in DOMAIN leaveRequests')
          => /\ leaveRequests'[i].status = leaveRequests[i].status
             /\ leaveRequests'[i].approved_by = leaveRequests[i].approved_by
             /\ leaveRequests'[i].approved_at = leaveRequests[i].approved_at
             /\ leaveRequests'[i].rejection_reason
                   = leaveRequests[i].rejection_reason]_vars

\* C12: every approved or rejected request was put in that status by an
\* approver whose role is admin.  (LeaveSpec; approved_by is written by
\* the same update that writes the status)
C12_DecidedByAdmin ==
    \A i \in LeaveIds :
        Decided(leaveRequests[i])
        => /\ leaveRequests[i].approved_by \in Users
           /\ UserRole[leaveRequests[i].approved_by] = "admin"

\* C13: every stored leave request has approved_at non-null iff its
\* status is approved.  (LeaveSpec)
C13_ApprovedAtIffApproved ==
    \A i \in LeaveIds :
        (leaveRequests[i].approved_at # Null) <=> (leaveRequests[i].status = "approved")

\* C13 witness: a request that was approved is pending or rejected again,
\* by a later updateLeaveRequestStatus, while another step of the clock
\* has passed
C13_Witness ==
    /\ leaveLast.op = "updateLeaveRequestStatus" /\ leaveLast.err = ""
    /\ leaveLast.ret.status # "approved"
    /\ fineSteps > 0
    /\ \E i \in LeaveIds :
          /\ leaveRequests[i].status # "approved"
          /\ leaveRequests[i].approved_by # Null

\* C14: an updateLeaveRequestStatus that is accepted writes: with status
\* approved, approved_at non-null and rejection_reason null whatever the
\* input's rejection_reason; with status rejected and a non-null
\* rejection_reason X, approved_at null and rejection_reason X; in both
\* cases approved_by is the input's approver.  (LeaveSpec)
C14_UpdateWrites ==
    [][\A c \in Calls :
          (LeaveStepOf(c, "updateLeaveRequestStatus", "write")
             /\ leaveLast'.op = "updateLeaveRequestStatus" /\ leaveLast'.err = "")
          => LET in == leaveCalls[c]
                 row == leaveRequests'[in.id]
             IN /\ in.status = "approved"
                     => /\ row.approved_at # Null
                        /\ row.rejection_reason = NullNotes
                        /\ row.approved_by = in.approved_by
                /\ (in.status = "rejected" /\ in.rejection_reason # NullNotes)
                     => /\ row.approved_at = Null
                        /\ row.rejection_reason = in.rejection_reason
                        /\ row.approved_by = in.approved_by]_vars

\* the rows of leave_requests other than i are as they were
OtherLeaveRequestsKept(i) ==
    \A j \in LeaveIds \ {i} :
        j \in DOMAIN leaveRequests' /\ leaveRequests'[j] = leaveRequests[j]

\* the call in slot c has thrown msg and has changed no leave request
LeaveRefused(c, op, msg) ==
    /\ leaveLast'.op = op /\ leaveLast'.err = msg
    /\ ~LeaveInFlight(c)'
    /\ leaveRequests' = leaveRequests

\* C15: deleteLeaveRequest(requestId, userId) throws 'Leave request not
\* found or does not belong to user' when no request has the id or the
\* request is another user's, throws 'Only pending leave requests can be
\* deleted' when the request is the user's and not pending, and changes
\* no request in either case; otherwise it removes that request and
\* returns success; and a request is removed by nothing else.  (LeaveSpec)
C15_DeleteLeaveRequest ==
    [][/\ \A c \in Calls, id \in LeaveIdInputs, u \in UserIds :
             BeginDeleteLeaveRequest(c, id, u)
             => LET owned == id \in LeaveIds /\ leaveRequests[id].user_id = u
                IN /\ ~owned
                        => LeaveRefused(c, "deleteLeaveRequest",
                              "Leave request not found or does not belong to user")
                   /\ (owned /\ leaveRequests[id].status # "pending")
                        => LeaveRefused(c, "deleteLeaveRequest",
                              "Only pending leave requests can be deleted")
                   /\ (owned /\ leaveRequests[id].status = "pending")
                        => /\ leaveCalls'[c].op = "deleteLeaveRequest"
                           /\ leaveCalls'[c].pc = "write"
                           /\ leaveCalls'[c].id = id
                           /\ leaveRequests' = leaveRequests
       /\ \A c \in Calls :
             LeaveStepOf(c, "deleteLeaveRequest", "write")
             => /\ DOMAIN leaveRequests' = LeaveIds \ {leaveCalls[c].id}
                /\ OtherLeaveRequestsKept(leaveCalls[c].id)
                /\ leaveLast'.op = "deleteLeaveRequest"
                /\ leaveLast'.err = "" /\ leaveLast'.success
       /\ \A i \in LeaveIds \ DOMAIN leaveRequests' :
             \E c \in Calls :
                /\ LeaveStepOf(c, "deleteLeaveRequest", "write")
                /\ leaveCalls[c].id = i
                /\ leaveRequests[i].user_id = leaveCalls[c].user_id
                /\ leaveRequests[i].status = "pending"]_vars

\* C15 witness: a deleteLeaveRequest of the owner was refused because the
\* request is no longer pending, and the request is still stored
C15_Witness ==
    /\ LeaveThrew("deleteLeaveRequest", "Only pending leave requests can be deleted")
    /\ \E i \in LeaveIds : Decided(leaveRequests[i])

\* C16: a request that has at any time been approved or rejected is never
\* removed from the store.  (LeaveSpec)
C16_DecidedIsPermanent ==
    [][\A i \in LeaveIds :
          leaveRequests[i].wasDecided => i \in DOMAIN leaveRequests']_vars

\* C17: createLeaveRequest of an existing user with start_date later than
\* end_date throws 'Start date must be before or equal to end date' and
\* inserts nothing; with start_date = end_date it goes on to its insert;
\* and every stored request has start_date <= end_date.  (LeaveSpec)
C17_StartNotAfterEnd ==
    /\ [](\A i \in LeaveIds :
             leaveRequests[i].start_date <= leaveRequests[i].end_date)
    /\ [][\A c \in Calls, u \in Users, start \in LeaveDateInputs,
             end \in LeaveDateInputs :
             BeginCreateLeaveRequest(c, u, start, end)
             => /\ start > end
                     => LeaveRefused(c, "createLeaveRequest",
                           "Start date must be before or equal to end date")
                /\ start = end
                     => /\ leaveCalls'[c].op = "createLeaveRequest"
                        /\ leaveCalls'[c].pc = "write"
                        /\ leaveCalls'[c].start_date = start
                        /\ leaveCalls'[c].end_date = end]_vars

\* C17 witness: a request of one day (start_date = end_date) is stored,
\* and a createLeaveRequest with start_date after end_date was refused
C17_Witness ==
    /\ LeaveThrew("createLeaveRequest", "Start date must be before or equal to end date")
    /\ \E i \in LeaveIds : leaveRequests[i].start_date = leaveRequests[i].end_date

\* C18: the insert of a createLeaveRequest adds exactly one request, of
\* the input user, pending, with approved_by, approved_at and
\* rejection_reason null, under an id no stored request has, returns it,
\* and changes no other request.  (LeaveSpec)
C18_CreateInsertsOnePending ==
    [][\A c \in Calls :
          LeaveStepOf(c, "createLeaveRequest", "write")
          => \E i \in DOMAIN leaveRequests' :
                /\ i \notin LeaveIds
                /\ DOMAIN leaveRequests' = LeaveIds \cup {i}
                /\ \A j \in LeaveIds : leaveRequests'[j] = leaveRequests[j]
                /\ leaveRequests'[i].user_id = leaveCalls[c].user_id
                /\ leaveRequests'[i].status = "pending"
                /\ leaveRequests'[i].approved_by = Null
                /\ leaveRequests'[i].approved_at = Null
                /\ leaveRequests'[i].rejection_reason = NullNotes
                /\ leaveLast'.op = "createLeaveRequest" /\ leaveLast'.err = ""
                /\ leaveLast'.ret = ToLeaveRequest(i, leaveRequests'[i])]_vars

\* C18 witness: a createLeaveRequest has succeeded after the request with
\* the first id was deleted, while another request is stored
C18_Witness ==
    /\ leaveLast.op = "createLeaveRequest" /\ leaveLast.err = ""
    /\ leaveLast.ret.id \in LeaveIds
    /\ 1 \notin LeaveIds
    /\ Cardinality(LeaveIds) > 1

\* the attendance call has thrown 'User not found' at once, and neither
\* store has changed
UnknownUserRefused(op) ==
    /\ last'.op = op /\ last'.err = "User not found"
    /\ calls' = calls
    /\ records' = records
    /\ leaveRequests' = leaveRequests

\* the leave-request call has thrown 'User not found' at once, and neither
\* store has changed
UnknownLeaveUserRefused(op) ==
    /\ leaveLast'.op = op /\ leaveLast'.err = "User not found"
    /\ leaveCalls' = leaveCalls
    /\ records' = records
    /\ leaveRequests' = leaveRequests

\* C19: clockIn, clockOut, getTodayAttendanceStatus, getUserAttendance,
\* createLeaveRequest and getUserLeaveRequests called with an id that is
\* no user throw 'User not found' whatever their other inputs are (a
\* start_date after the end_date included) and change neither the
\* attendance records nor the leave requests.  (MixedSpec)
C19_UnknownUserRefused ==
    [][\A u \in UserIds \ Users :
          /\ \A c \in Calls :
                /\ \A n \in ClockInNotes :
                      BeginClockIn(c, u, n) => UnknownUserRefused("clockIn")
                /\ \A n \in ClockOutNotes :
                      BeginClockOut(c, u, n) => UnknownUserRefused("clockOut")
                /\ BeginGetToday(c, u)
                      => UnknownUserRefused("getTodayAttendanceStatus")
                /\ \A start \in LeaveDateInputs, end \in LeaveDateInputs :
                      BeginCreateLeaveRequest(c, u, start, end)
                      => UnknownLeaveUserRefused("createLeaveRequest")
          /\ \A start \in RangeInputs, end \in RangeInputs :
                GetUserAttendance(u, start, end)
                => UnknownUserRefused("getUserAttendance")
          /\ GetUserLeaveRequests(u)
                => UnknownLeaveUserRefused("getUserLeaveRequests")]_vars

\* C19 witness: with an attendance record and a leave request stored, a
\* createLeaveRequest of an unknown user was refused
C19_Witness ==
    /\ LeaveThrew("createLeaveRequest", "User not found")
    /\ records # <<>>
    /\ LeaveIds # {}

\* C20: updateLeaveRequestStatus throws 'Leave request not found' when no
\* request has the id, whoever the approver is, and 'Approver not found'
\* when the request exists and approved_by is no user; in both cases no
\* leave request is changed.  (LeaveSpec)
C20_UpdateNotFound ==
    [][/\ \A c \in Calls, id \in LeaveIdInputs \ LeaveIds :
             FreeLeaveSlot(c)
             => \A status \in LeaveStatuses, by \in UserIds,
                   reason \in RejectionReasons :
                   BeginUpdateLeaveRequestStatus(c, id, status, by, reason)
                   => LeaveRefused(c, "updateLeaveRequestStatus",
                                   "Leave request not found")
       /\ \A c \in Calls :
             (LeaveStepOf(c, "updateLeaveRequestStatus", "approver")
                /\ leaveCalls[c].approved_by \notin Users)
             => LeaveRefused(c, "updateLeaveRequestStatus", "Approver not found")]_vars

\* C20 witness: an updateLeaveRequestStatus of a stored request was
\* refused for its unknown approver
C20_Witness ==
    /\ LeaveThrew("updateLeaveRequestStatus", "Approver not found")
    /\ LeaveIds # {}

(***************************************************************************)
(* Properties of clockIn and login with respect to the active flag.        *)
(***************************************************************************)
\* C21: clockIn succeeds only if the user exists and is active: a clockIn
\* for a user whose is_active flag is false creates no attendance record,
\* so every attendance record belongs to an active user.  (AuthSpec)
C21_OnlyActiveClockIn ==
    \A r \in RecordIds :
        records[r].user_id \in Users /\ UserActive[records[r].user_id]

\* the users whose email is e
UsersOfEmail(e) == {u \in Users : UserEmail[u] = e}

\* C22: login returns a user and a token only for an existing, active
\* user whose password matches, and then that user and a token for them;
\* an unknown email fails with 'Invalid credentials', and so does a wrong
\* password of an active account; an inactive account fails with
\* 'Account is inactive'; login changes no stored state.  (AuthSpec)
C22_Login ==
    [][\A e \in EmailInputs, p \in PasswordInputs :
          Login(e, p) =>
            /\ UNCHANGED <<records, leaveRequests, nextLeaveId>>
            /\ UsersOfEmail(e) = {} => loginLast'.err = "Invalid credentials"
            /\ \A u \in UsersOfEmail(e) :
                  /\ ~UserActive[u] => loginLast'.err = "Account is inactive"
                  /\ (UserActive[u] /\ p # PasswordHash[u])
                        => loginLast'.err = "Invalid credentials"
                  /\ (UserActive[u] /\ p = PasswordHash[u])
                        => /\ loginLast'.err = ""
                           /\ loginLast'.user = u
                           /\ loginLast'.token.userId = u
                           /\ loginLast'.token.role = UserRole[u]
            /\ loginLast'.err # ""
                  => loginLast'.user = 0 /\ loginLast'.token = NoToken]_vars

\* C22 witness: a login has succeeded while the store holds an attendance
\* record
C22_Witness ==
    /\ loginLast.err = "" /\ loginLast.user \in Users
    /\ records # <<>>

(***************************************************************************)
(* Properties of getTodayAttendanceStatus.                                 *)
(***************************************************************************)
\* C23: after any sequence of clockIn / clockOut calls,
\* getTodayAttendanceStatus(u) returns (false, false, null) when u has no
\* record of today, (true, false, that record) when today's record is
\* open and (true, true, that record) when it is closed; hasClockedOut
\* implies hasClockedIn, and hasClockedIn holds iff currentRecord is
\* non-null.  (SeqSpec; today is the day the call read)
C23_TodayStatus ==
    [][\A c \in Calls :
          StepOf(c, "getTodayAttendanceStatus", "find") =>
            LET S == RowsOf(calls[c].user_id, calls[c].date)
            IN /\ last'.op = "getTodayAttendanceStatus" /\ last'.err = ""
               /\ S = {} => /\ ~last'.hasClockedIn /\ ~last'.hasClockedOut
                             /\ last'.ret = NoRecord
               /\ \A r \in S :
                     /\ last'.hasClockedIn
                     /\ last'.hasClockedOut = Closed(r)
                     /\ last'.ret = ToAttendanceRecord(r, records[r])
                     /\ last'.ret.user_id = calls[c].user_id
               /\ last'.hasClockedOut => last'.hasClockedIn
               /\ last'.hasClockedIn <=> last'.ret # NoRecord]_vars

\* C23 witness: a status call has returned (true, true, a closed record)
C23_Witness ==
    /\ last.op = "getTodayAttendanceStatus" /\ last.err = ""
    /\ last.hasClockedIn /\ last.hasClockedOut
    /\ last.ret.clock_out # Null

\* the call that returned last was a getTodayAttendanceStatus of a known
\* user: no call has returned, and so no row was written, since
LastWasTodayStatus == last.op = "getTodayAttendanceStatus" /\ last.err = ""

\* C24 as stated: two consecutive getTodayAttendanceStatus calls of a user
\* with no mutating operation between them return identical results, and
\* the call changes no stored state.  (OneSeqSpec: every known caller is
\* the same user)
C24_StatusIdempotent ==
    [][\A c \in Calls :
          (StepOf(c, "getTodayAttendanceStatus", "find") /\ LastWasTodayStatus)
              => last' = last /\ records' = records]_vars

\* C24 amended: two consecutive getTodayAttendanceStatus calls of a user
\* made on the same day, with no mutating operation between them, return
\* identical results, and the call changes no stored state.  (OneSeqSpec;
\* the calls are of the same day when the first returned no record, as no
\* record of a later day can exist yet, or returned the record of the
\* day the second call reads)
C24_StatusIdempotentSameDay ==
    [][\A c \in Calls :
          StepOf(c, "getTodayAttendanceStatus", "find") =>
            /\ records' = records
            /\ (/\ LastWasTodayStatus
                /\ last.ret # NoRecord
                      => last.ret.date = DateFromString(calls[c].date))
                  => last' = last]_vars

\* C24 witness: after one successful clockIn, three more calls were made
\* and the last returned the status (true, false, the open record)
C24_Witness ==
    /\ LastWasTodayStatus /\ last.hasClockedIn /\ ~last.hasClockedOut
    /\ Len(records) = 1 /\ begun = MaxBegun

(***************************************************************************)
(* Properties of the notes written by clockOut.                            *)
(***************************************************************************)
\* C25: a successful clockOut sets the record's notes to the notes
\* supplied whenever they are non-null (the empty string included) and
\* leaves the notes of clock-in when the notes supplied are null or
\* absent.  (SeqSpec)
C25_ClockOutNotes ==
    [][\A c \in Calls :
          StepOf(c, "clockOut", "write") =>
            LET r == calls[c].rid
            IN /\ calls[c].notes # NullNotes
                     => records'[r].notes = calls[c].notes
               /\ calls[c].notes = NullNotes
                     => records'[r].notes = records[r].notes]_vars

(***************************************************************************)
(* Properties of getUserAttendance.                                        *)
(***************************************************************************)
\* the ids of the records of a returned list
ListIds(list) == {list[k].id : k \in 1..Len(list)}

\* C26: getUserAttendance(u, start, end) returns exactly the records of u
\* whose date d satisfies start <= d <= end, each bound inclusive and
\* applied only when given, the bounds taken by their calendar day; the
\* list is in non-increasing date order and holds each record once; it
\* is empty, and no error, when no record matches; the call changes no
\* record.  (SeqSpec)
C26_UserAttendance ==
    [][\A u \in Users, start \in SeqRangeInputs, end \in SeqRangeInputs :
          (last'.op = "getUserAttendance" /\ begun' # begun
              /\ GetUserAttendance(u, start, end)) =>
            LET list == last'.list
                Matching ==
                    {r \in RecordIds :
                        /\ records[r].user_id = u
                        /\ start # Null => start \div MsPerDay <= records[r].date
                        /\ end # Null => records[r].date <= end \div MsPerDay}
            IN /\ last'.op = "getUserAttendance" /\ last'.err = ""
               /\ ListIds(list) = Matching
               /\ Len(list) = Cardinality(Matching)
               /\ \A k \in 1..Len(list) :
                     list[k] = ToAttendanceRecord(list[k].id, records[list[k].id])
               /\ \A j, k \in 1..Len(list) :
                     j < k => list[j].date >= list[k].date
               /\ records' = records]_vars

\* C26 witness: a call has returned a list of two records of different
\* days while the table holds a record it left out
C26_Witness ==
    /\ last.op = "getUserAttendance" /\ last.err = ""
    /\ Len(last.list) = 2 /\ last.list[1].date > last.list[2].date
    /\ Len(records) > 2

(***************************************************************************)
(* Properties of the leave-request list queries.                           *)
(***************************************************************************)
\* the list returned holds exactly the requests S, each once and as
\* stored, most recently created first
ListsMostRecentFirst(list, S) ==
    /\ ListIds(list) = S
    /\ Len(list) = Cardinality(S)
    /\ \A k \in 1..Len(list) :
          list[k] = ToLeaveRequest(list[k].id, leaveRequests[list[k].id])
    /\ \A j, k \in 1..Len(list) :
          j < k => list[j].created_at >= list[k].created_at

\* C27: getPendingLeaveRequests returns exactly the stored requests whose
\* status is pending, and getUserLeaveRequests(u) exactly those owned by
\* u, both ordered most recently created first (created_at
\* non-increasing); neither changes a request.  (LeaveSpec)
C27_LeaveLists ==
    [][(begun' # begun /\ leaveLast'.err = "") =>
          /\ (leaveLast'.op = "getPendingLeaveRequests" /\ GetPendingLeaveRequests) =>
                /\ ListsMostRecentFirst(leaveLast'.list,
                       {i \in LeaveIds : leaveRequests[i].status = "pending"})
                /\ leaveRequests' = leaveRequests
          /\ \A u \in Users :
                (leaveLast'.op = "getUserLeaveRequests" /\ GetUserLeaveRequests(u)) =>
                    /\ ListsMostRecentFirst(leaveLast'.list,
                           {i \in LeaveIds : leaveRequests[i].user_id = u})
                    /\ leaveRequests' = leaveRequests]_vars

\* C27 witness: getUserLeaveRequests has returned two requests, the later
\* created first, while the table holds a third request, of another user
C27_Witness ==
    /\ leaveLast.op = "getUserLeaveRequests" /\ leaveLast.err = ""
    /\ Len(leaveLast.list) = 2
    /\ leaveLast.list[1].created_at > leaveLast.list[2].created_at
    /\ \E i \in LeaveIds : leaveRequests[i].user_id # leaveLast.list[1].user_id

(***************************************************************************)
(* Frame of the mutating operations.                                       *)
(***************************************************************************)
\* ids of the attendance records the step inserts or changes (no
\* statement deletes one)
ChangedRecords ==
    {r \in 1..Len(records') : r > Len(records) \/ records'[r] # records[r]}

\* ids of the leave requests the step inserts, changes or deletes
ChangedLeaveRequests ==
    {i \in LeaveIds \cup DOMAIN leaveRequests' :
        \/ i \notin LeaveIds
        \/ i \notin DOMAIN leaveRequests'
        \/ leaveRequests'[i] # leaveRequests[i]}

\* the owner of leave request i, before or after the step
LeaveOwner(i) ==
    IF i \in LeaveIds THEN leaveRequests[i].user_id ELSE leaveRequests'[i].user_id

\* C28: every step of an operation changes at most one row, and no row
\* is ever removed from attendance_records; a step of clockIn(u) or
\* clockOut(u) changes only records of u and no leave request; a step of
\* createLeaveRequest(u) or deleteLeaveRequest(id, u) changes only leave
\* requests owned by u and no attendance record; a step of
\* updateLeaveRequestStatus(id) changes only request id; every other
\* step changes no row.  (MixedSpec; the user store is the constant
\* Users: no handler of the core writes usersTable)
C28_Frame ==
    [][/\ Cardinality(ChangedRecords) + Cardinality(ChangedLeaveRequests) <= 1
       /\ Len(records') >= Len(records)
       /\ \A c \in Calls :
             /\ calls'[c] # calls[c] =>
                   /\ \A r \in ChangedRecords :
                         /\ calls[c].op \in {"clockIn", "clockOut"}
                         /\ records'[r].user_id = calls[c].user_id
                   /\ ChangedLeaveRequests = {}
             /\ leaveCalls'[c] # leaveCalls[c] =>
                   /\ \A i \in ChangedLeaveRequests :
                         \/ /\ leaveCalls[c].op \in
                                  {"createLeaveRequest", "deleteLeaveRequest"}
                            /\ LeaveOwner(i) = leaveCalls[c].user_id
                         \/ /\ leaveCalls[c].op = "updateLeaveRequestStatus"
                            /\ i = leaveCalls[c].id
                            /\ i \in LeaveIds /\ i \in DOMAIN leaveRequests'
                   /\ ChangedRecords = {}
       /\ (\A c \in Calls : calls'[c] = calls[c] /\ leaveCalls'[c] = leaveCalls[c])
             => ChangedRecords = {} /\ ChangedLeaveRequests = {}]_vars

\* C28 witness: a deleteLeaveRequest has succeeded and another request is
\* still stored
C28_Witness ==
    /\ leaveLast.op = "deleteLeaveRequest" /\ leaveLast.success
    /\ LeaveIds # {}

C29_ApproveSendsClickedRow ==
    [][/\ \A c \in Calls, R \in DisplayedRows :
             ClickApprove(c, R) =>
                 /\ begun' = begun + 1
                 /\ panel'.isLoading /\ panel'.sending = R
                 /\ R \in LeaveIds =>
                       \E d \in Calls :
                           /\ leaveCalls'[d].op = "updateLeaveRequestStatus"
                           /\ leaveCalls'[d].id = R
                           /\ leaveCalls'[d].status = "approved"
       /\ (PanelSettle /\ leaveLast.err = "") =>
             /\ leaveLast.ret.id = panel.sending
             /\ panel'.pendingLeaveRequests =
                   WithoutRequest(panel.pendingLeaveRequests, leaveLast.ret.id)]_vars
====
